---- MODULE Spec2Model ----
(***************************************************************************)
(* Model of src/src/generator.py: the Cloudflare navigation generator.     *)
(*                                                                         *)
(* main() fetches the zone list, fetches every zone's DNS records          *)
(* sequentially, submits one process_record_status task per record to a    *)
(* ThreadPoolExecutor of NUM_WORKERS threads, collects the results with    *)
(* as_completed, groups them by zone in generate_links_html and writes the *)
(* page.                                                                   *)
(*                                                                         *)
(* Strings that the code inspects character by character (host names and   *)
(* prefixes, through str.startswith) are sequences of one-character        *)
(* strings.  Python's None is the empty sequence <<>> and a value v that   *)
(* may be None is <<v>>.                                                   *)
(***************************************************************************)
EXTENDS Integers, Sequences, FiniteSets, TLC

VARIABLES
    SHOW_RECORD_STATUS,        \* config, generator.py:18
    SKIP_DETECTION_PREFIXES,   \* config, generator.py:38
    HIDE_RECORD_PREFIXES,      \* config, generator.py:39
    zonePages,                 \* provider: the responses of GET /zones, by page
    recordPages,               \* provider: zone id -> responses of GET /zones/{id}/dns_records
    reach,                     \* network: host name -> outcome of requests.head
    pc,                        \* position of main()
    zones,                     \* main: zones (None or the list)
    zone_index,                \* main: position of "for zone in zones"
    all_records_to_process,    \* main: the worklist
    futures,                   \* executor: one Future per submitted task
    yielded,                   \* as_completed: the futures already handed to main
    all_valid_links,           \* main: the accumulator
    grouped_data,              \* generate_links_html: None or the zone groups
    html_output,               \* generate_links_html: None or the rendered groups
    output_written,            \* main: index.html was written
    api_requests,              \* every requests.get issued, in order
    probe_calls                \* every check_url_status call, in order

vars == << SHOW_RECORD_STATUS, SKIP_DETECTION_PREFIXES, HIDE_RECORD_PREFIXES,
           zonePages, recordPages, reach, pc, zones, zone_index,
           all_records_to_process, futures, yielded, all_valid_links,
           grouped_data, html_output, output_written, api_requests, probe_calls >>

envVars == << SHOW_RECORD_STATUS, SKIP_DETECTION_PREFIXES, HIDE_RECORD_PREFIXES,
              zonePages, recordPages, reach >>

-----------------------------------------------------------------------------
(* Program constants *)

NUM_WORKERS == 5

SKIPPED == 888

NETWORK_ERROR == 999

ALLOWED_TYPES == {"A", "CNAME", "AAAA"}

EXCLUDE_PREFIXES ==
    { << "_", "a", "c", "m", "e", "-", "c", "h", "a", "l", "l", "e", "n", "g", "e" >>,
      << "m", "a", "i", "l" >>,
      << "f", "t", "p" >>,
      << "l", "o", "c", "a", "l", "h", "o", "s", "t" >> }

None == << >>

Some(v) == << v >>

-----------------------------------------------------------------------------
(* str.startswith and the prefix + '.' of the filters *)

startswith(s, p) ==
    /\ Len(p) <= Len(s)
    /\ SubSeq(s, 1, Len(p)) = p

NoDot(prefix) == prefix

WithDot(prefix) == Append(prefix, ".")

-----------------------------------------------------------------------------
(* get_cloudflare_data: one paginated list operation.                      *)
(* A page response is [http_ok, success, result_null, result, total_pages]: *)
(*   http_ok      FALSE when requests.get or raise_for_status raises        *)
(*                (timeout, connection failure, HTTP 4xx/5xx);              *)
(*   success      the envelope's "success";                                 *)
(*   result_null  the envelope's "result" is JSON null;                     *)
(*   result       the envelope's "result" list ([] when the key is absent); *)
(*   total_pages  the envelope's result_info.total_pages.                   *)
(* The value is [results, error, requests]: the pair the function returns   *)
(* and the number of page requests it issued.                               *)

Failed(n) == [results |-> None, error |-> TRUE, requests |-> n]

\* range(2, total_pages) in place of range(2, total_pages + 1)
RECURSIVE LaterPagesSkipsLast(_, _, _, _)
LaterPagesSkipsLast(pages, page, total_pages, all_results) ==
    IF page >= total_pages
    THEN [results |-> Some(all_results), error |-> FALSE, requests |-> page - 1]
    ELSE IF ~pages[page].http_ok
    THEN Failed(page)
    ELSE IF pages[page].result_null
    THEN Failed(page)
    ELSE LaterPagesSkipsLast(pages, page + 1, total_pages,
                             all_results \o pages[page].result)

RECURSIVE LaterPages(_, _, _, _)
LaterPages(pages, page, total_pages, all_results) ==
    IF page > total_pages
    THEN [results |-> Some(all_results), error |-> FALSE, requests |-> page - 1]
    ELSE IF ~pages[page].http_ok
    THEN Failed(page)                        \* RequestException, line 70
    ELSE IF pages[page].result_null
    THEN Failed(page)                        \* extend(None): TypeError, line 72
    ELSE LaterPages(pages, page + 1, total_pages,
                    all_results \o pages[page].result)

get_cloudflare_data(pages) ==
    IF ~pages[1].http_ok
    THEN Failed(1)
    ELSE IF ~pages[1].success
    THEN Failed(1)                           \* return None, data.get('errors')
    ELSE IF pages[1].result_null
    THEN IF pages[1].total_pages >= 2
         THEN Failed(2)                      \* None.extend: AttributeError, line 72
         ELSE [results |-> None, error |-> FALSE, requests |-> 1]
    ELSE LaterPages(pages, 2, pages[1].total_pages, pages[1].result)

-----------------------------------------------------------------------------
(* Record Filter, generator.py:108-124 *)

is_valid_no_type_check(record) ==
    /\ \A prefix \in EXCLUDE_PREFIXES : ~startswith(record.name, WithDot(prefix))
    /\ \A prefix \in HIDE_RECORD_PREFIXES : ~startswith(record.name, WithDot(prefix))

is_valid_link_record(record) ==
    /\ record.type \in ALLOWED_TYPES
    /\ \A prefix \in EXCLUDE_PREFIXES : ~startswith(record.name, WithDot(prefix))
    /\ \A prefix \in HIDE_RECORD_PREFIXES : ~startswith(record.name, WithDot(prefix))

-----------------------------------------------------------------------------
(* Health Prober, generator.py:94-103.  reach[host] is what requests.head   *)
(* does for https://host: [raises, status_code].  The value is             *)
(* [raised, status_code]: raised says that an exception leaves the         *)
(* function, which the except clause of line 102 prevents.                 *)

test_url_of(full_name) == << "https://" >> \o full_name

host_of(url) == Tail(url)

check_url_status_no_except(url) ==
    IF reach[host_of(url)].raises
    THEN [raised |-> TRUE, status_code |-> 0]
    ELSE [raised |-> FALSE, status_code |-> reach[host_of(url)].status_code]

check_url_status(url) ==
    IF reach[host_of(url)].raises
    THEN [raised |-> FALSE, status_code |-> NETWORK_ERROR]
    ELSE [raised |-> FALSE, status_code |-> reach[host_of(url)].status_code]

-----------------------------------------------------------------------------
(* process_record_status, generator.py:190-233 *)

skip_never(full_name) == FALSE

should_skip_detection_by_config(full_name) ==
    \E prefix \in SKIP_DETECTION_PREFIXES : startswith(full_name, WithDot(prefix))

\* the switch SHOW_RECORD_STATUS is not consulted
performs_check_whatever_the_switch(full_name) ==
    ~should_skip_detection_by_config(full_name)

\* line 213, negated: the branch that calls check_url_status
performs_check(full_name) ==
    ~(~SHOW_RECORD_STATUS \/ should_skip_detection_by_config(full_name))

link_data(record_data, status_code) ==
    [ zone_name   |-> record_data.zone_name,
      full_name   |-> record_data.record.name,
      type        |-> record_data.record.type,
      content     |-> record_data.record.content,
      status_code |-> status_code,
      test_url    |-> test_url_of(record_data.record.name) ]

-----------------------------------------------------------------------------
(* generate_links_html, generator.py:128-186 *)

\* lines 132-134: defaultdict(list) filled in list order; a dict keeps its
\* keys in insertion order, so a group is placed where its zone first appears
RECURSIVE group_by_zone(_, _)
group_by_zone(dns_data, grouped) ==
    IF dns_data = << >>
    THEN grouped
    ELSE LET link == Head(dns_data)
             at == { g \in 1..Len(grouped) : grouped[g].zone_name = link.zone_name }
         IN  IF at = {}
             THEN group_by_zone(Tail(dns_data),
                      Append(grouped, [zone_name |-> link.zone_name,
                                       links |-> << link >>]))
             ELSE LET g == CHOOSE x \in at : TRUE
                  IN  group_by_zone(Tail(dns_data),
                          [grouped EXCEPT ![g].links = Append(@, link)])

grouped_data_of(dns_data) == group_by_zone(dns_data, << >>)

\* lines 152-163
status_display_closed(status_code) ==
    IF status_code >= 200 /\ status_code <= 400
    THEN [status_class |-> "status-ok", status_text |-> << "online", status_code >>]
    ELSE IF status_code = 888
    THEN [status_class |-> "status-skipped", status_text |-> << "skipped" >>]
    ELSE IF status_code = 999
    THEN [status_class |-> "status-net-error", status_text |-> << "connection failed" >>]
    ELSE [status_class |-> "status-error", status_text |-> << "error", status_code >>]

status_display(status_code) ==
    IF status_code >= 200 /\ status_code < 400
    THEN [status_class |-> "status-ok", status_text |-> << "online", status_code >>]
    ELSE IF status_code = 888
    THEN [status_class |-> "status-skipped", status_text |-> << "skipped" >>]
    ELSE IF status_code = 999
    THEN [status_class |-> "status-net-error", status_text |-> << "connection failed" >>]
    ELSE [status_class |-> "status-error", status_text |-> << "error", status_code >>]

\* lines 148-172: status_html is "" unless SHOW_RECORD_STATUS
status_html(link) ==
    IF SHOW_RECORD_STATUS THEN Some(status_display(link.status_code)) ELSE None

generate_links_html(dns_data) ==
    LET grouped == grouped_data_of(dns_data)
    IN  [ g \in 1..Len(grouped) |->
            [ zone_name |-> grouped[g].zone_name,
              items |-> [ k \in 1..Len(grouped[g].links) |->
                            [ full_name   |-> grouped[g].links[k].full_name,
                              status_html |-> status_html(grouped[g].links[k]) ] ] ] ]

-----------------------------------------------------------------------------
(* main, generator.py:238-311 *)

Falsy(opt) == opt = None \/ opt[1] = << >>

PageRequests(url, n) == [ p \in 1..n |-> [url |-> url, page |-> p] ]

\* lines 242-245 with get_all_zones, lines 75-82
GetAllZones ==
    /\ pc = "get_zones"
    /\ LET r == get_cloudflare_data(zonePages)
       IN  /\ zones' = r.results
           /\ api_requests' = api_requests \o PageRequests("zones", r.requests)
           /\ pc' = IF Falsy(r.results) THEN "exit" ELSE "fetch_records"
    /\ UNCHANGED << envVars, zone_index, all_records_to_process, futures, yielded,
                    all_valid_links, grouped_data, html_output, output_written,
                    probe_calls >>

\* the pool is started as soon as one zone has given records
GetDnsRecordsThenPool ==
    /\ pc = "fetch_records"
    /\ LET zone == zones[1][zone_index]
           r == get_cloudflare_data(recordPages[zone.id])
           collected == IF Falsy(r.results)
                        THEN all_records_to_process
                        ELSE all_records_to_process \o
                             [ k \in 1..Len(r.results[1]) |->
                                 [zone_name |-> zone.name, record |-> r.results[1][k]] ]
       IN  /\ api_requests' = api_requests \o PageRequests(zone.id, r.requests)
           /\ all_records_to_process' = collected
           /\ IF zone_index < Len(zones[1]) /\ collected = << >>
              THEN /\ zone_index' = zone_index + 1
                   /\ pc' = pc
              ELSE /\ zone_index' = zone_index
                   /\ pc' = IF collected # << >> THEN "submit" ELSE "render"
    /\ UNCHANGED << envVars, zones, futures, yielded, all_valid_links, grouped_data,
                    html_output, output_written, probe_calls >>

\* lines 254-264 with get_dns_records, lines 84-90: one iteration of the loop;
\* after the last one, line 271 chooses between the pool and the rendering
\* every record tagged with the name of the first zone of the list
tagged_first_zone(zone, records) ==
    [ k \in 1..Len(records) |-> [zone_name |-> zones[1][1].name, record |-> records[k]] ]

tagged(zone, records) ==
    [ k \in 1..Len(records) |-> [zone_name |-> zone.name, record |-> records[k]] ]

GetDnsRecords ==
    /\ pc = "fetch_records"
    /\ LET zone == zones[1][zone_index]
           r == get_cloudflare_data(recordPages[zone.id])
           collected == IF Falsy(r.results)
                        THEN all_records_to_process
                        ELSE all_records_to_process \o tagged(zone, r.results[1])
       IN  /\ api_requests' = api_requests \o PageRequests(zone.id, r.requests)
           /\ all_records_to_process' = collected
           /\ IF zone_index < Len(zones[1])
              THEN /\ zone_index' = zone_index + 1
                   /\ pc' = pc
              ELSE /\ zone_index' = zone_index
                   /\ pc' = IF collected # << >> THEN "submit" ELSE "render"
    /\ UNCHANGED << envVars, zones, futures, yielded, all_valid_links, grouped_data,
                    html_output, output_written, probe_calls >>

\* lines 278-281: executor.submit for the next record of the worklist
Submit ==
    /\ pc = "submit"
    /\ futures' = Append(futures, [state |-> "PENDING", result |-> None,
                                   raised |-> FALSE])
    /\ pc' = IF Len(futures') = Len(all_records_to_process) THEN "collect" ELSE pc
    /\ UNCHANGED << envVars, zones, zone_index, all_records_to_process, yielded,
                    all_valid_links, grouped_data, html_output, output_written,
                    api_requests, probe_calls >>

\* line 275: ThreadPoolExecutor(max_workers=NUM_WORKERS); a task occupies a
\* worker thread from the moment it is taken from the queue until it returns
Running == { i \in 1..Len(futures) : futures[i].state = "RUNNING" }

UnboundedPool == TRUE

WorkerAvailable == Cardinality(Running) < NUM_WORKERS

\* the executor's work queue is first in, first out
NextInQueue(i) ==
    /\ i \in 1..Len(futures)
    /\ futures[i].state = "PENDING"
    /\ \A j \in 1..(i - 1) : futures[j].state # "PENDING"

\* a worker takes task i and runs process_record_status up to its return
\* (lines 198-199, 213-218, 225-233) or up to the call of line 221
StartTask(i) ==
    /\ pc \in {"submit", "collect", "crashed"}
    /\ NextInQueue(i)
    /\ WorkerAvailable
    /\ LET record_data == all_records_to_process[i]
           full_name == record_data.record.name
       IN  IF ~is_valid_link_record(record_data.record)
           THEN /\ futures' = [futures EXCEPT ![i].state = "FINISHED"]
                /\ probe_calls' = probe_calls
           ELSE IF ~performs_check(full_name)
           THEN /\ futures' = [futures EXCEPT ![i].state = "FINISHED",
                                  ![i].result = Some(link_data(record_data, SKIPPED))]
                /\ probe_calls' = probe_calls
           ELSE /\ futures' = [futures EXCEPT ![i].state = "RUNNING"]
                /\ probe_calls' = Append(probe_calls, test_url_of(full_name))
    /\ UNCHANGED << envVars, pc, zones, zone_index, all_records_to_process, yielded,
                    all_valid_links, grouped_data, html_output, output_written,
                    api_requests >>

\* the worker appends its LinkEntry to the accumulator itself
ProbeReturnAppends(i) ==
    /\ i \in Running
    /\ LET record_data == all_records_to_process[i]
           got == check_url_status(test_url_of(record_data.record.name))
       IN  /\ futures' = [futures EXCEPT ![i].state = "FINISHED",
                             ![i].result = Some(link_data(record_data, got.status_code))]
           /\ all_valid_links' = Append(all_valid_links,
                                        link_data(record_data, got.status_code))
    /\ UNCHANGED << envVars, pc, zones, zone_index, all_records_to_process, yielded,
                    grouped_data, html_output, output_written, api_requests,
                    probe_calls >>

\* requests.get without a timeout: the probe of a host that does not answer
\* never returns
ProbeReturnNoTimeout(i) ==
    /\ i \in Running
    /\ ~reach[all_records_to_process[i].record.name].raises
    /\ LET record_data == all_records_to_process[i]
           got == check_url_status(test_url_of(record_data.record.name))
       IN  futures' = [futures EXCEPT ![i].state = "FINISHED",
                          ![i].raised = got.raised,
                          ![i].result = IF got.raised THEN None
                                        ELSE Some(link_data(record_data, got.status_code))]
    /\ UNCHANGED << envVars, pc, zones, zone_index, all_records_to_process, yielded,
                    all_valid_links, grouped_data, html_output, output_written,
                    api_requests, probe_calls >>

\* check_url_status returns (line 221) and process_record_status with it
ProbeReturn(i) ==
    /\ i \in Running
    /\ LET record_data == all_records_to_process[i]
           got == check_url_status(test_url_of(record_data.record.name))
       IN  futures' = [futures EXCEPT ![i].state = "FINISHED",
                          ![i].raised = got.raised,
                          ![i].result = IF got.raised THEN None
                                        ELSE Some(link_data(record_data, got.status_code))]
    /\ UNCHANGED << envVars, pc, zones, zone_index, all_records_to_process, yielded,
                    all_valid_links, grouped_data, html_output, output_written,
                    api_requests, probe_calls >>

\* main leaves the loop at the first task that returned None
CollectBreaksOnNone(i) ==
    /\ pc = "collect"
    /\ i \in 1..Len(futures)
    /\ futures[i].state = "FINISHED"
    /\ i \notin yielded
    /\ yielded' = yielded \cup {i}
    /\ IF futures[i].raised
       THEN /\ pc' = "crashed"
            /\ all_valid_links' = all_valid_links
       ELSE /\ all_valid_links' = IF futures[i].result # None
                                  THEN Append(all_valid_links, futures[i].result[1])
                                  ELSE all_valid_links
            /\ pc' = IF yielded' = 1..Len(futures) \/ futures[i].result = None
                     THEN "render" ELSE pc
    /\ UNCHANGED << envVars, zones, zone_index, all_records_to_process, futures,
                    grouped_data, html_output, output_written, api_requests,
                    probe_calls >>

\* lines 284-289: as_completed hands main a finished future it has not handed
\* yet; future.result() re-raises what the task raised
Collect(i) ==
    /\ pc = "collect"
    /\ i \in 1..Len(futures)
    /\ futures[i].state = "FINISHED"
    /\ i \notin yielded
    /\ yielded' = yielded \cup {i}
    /\ IF futures[i].raised
       THEN /\ pc' = "crashed"
            /\ all_valid_links' = all_valid_links
       ELSE /\ all_valid_links' = IF futures[i].result # None
                                  THEN Append(all_valid_links, futures[i].result[1])
                                  ELSE all_valid_links
            /\ pc' = IF yielded' = 1..Len(futures) THEN "render" ELSE pc
    /\ UNCHANGED << envVars, zones, zone_index, all_records_to_process, futures,
                    grouped_data, html_output, output_written, api_requests,
                    probe_calls >>

\* line 294
Render ==
    /\ pc = "render"
    /\ grouped_data' = Some(grouped_data_of(all_valid_links))
    /\ html_output' = Some(generate_links_html(all_valid_links))
    /\ pc' = "template"
    /\ UNCHANGED << envVars, zones, zone_index, all_records_to_process, futures,
                    yielded, all_valid_links, output_written, api_requests,
                    probe_calls >>

\* lines 297-311: the template is read and index.html written
WriteOutput ==
    /\ pc = "template"
    /\ output_written' = TRUE
    /\ pc' = "done"
    /\ UNCHANGED << envVars, zones, zone_index, all_records_to_process, futures,
                    yielded, all_valid_links, grouped_data, html_output,
                    api_requests, probe_calls >>

\* lines 300-302: FileNotFoundError
TemplateMissing ==
    /\ pc = "template"
    /\ pc' = "exit"
    /\ UNCHANGED << envVars, zones, zone_index, all_records_to_process, futures,
                    yielded, all_valid_links, grouped_data, html_output,
                    output_written, api_requests, probe_calls >>

Next ==
    \/ GetAllZones
    \/ GetDnsRecords
    \/ Submit
    \/ \E i \in 1..Len(futures) : StartTask(i)
    \/ \E i \in 1..Len(futures) : ProbeReturn(i)
    \/ \E i \in 1..Len(futures) : Collect(i)
    \/ Render
    \/ WriteOutput
    \/ TemplateMissing

-----------------------------------------------------------------------------
(* The provider account, the network and the configuration a run starts in *)

MaxRecords == 4       \* Spec: records in the account

MaxPages == 3         \* SpecFetch: pages of one listing

MaxPoolRecords == 7   \* SpecPool: records in the account

MaxStatus == 999      \* SpecClassify: greatest status a server answers with

ZX == [id |-> "id-x", name |-> "x"]

ZY == [id |-> "id-y", name |-> "y"]

Rec(name, type) == [name |-> name, type |-> type, content |-> "target"]

CatalogueX ==
    << Rec(<< "a", ".", "x" >>, "A"),
       Rec(<< "m", "a", "i", "l", ".", "x" >>, "A"),
       Rec(<< "n", "a", "s", ".", "x" >>, "A"),
       Rec(<< "x" >>, "MX") >>

CatalogueY ==
    << Rec(<< "m", "a", "i", "l", "e", "r", ".", "y" >>, "CNAME"),
       Rec(<< "d", "e", "v", ".", "y" >>, "AAAA"),
       Rec(<< "y" >>, "TXT"),
       Rec(<< "a", ".", "y" >>, "AAAA") >>

Digits == << "1", "2", "3", "4", "5", "6", "7", "8", "9" >>

PoolRecords(n) == [ k \in 1..n |-> Rec(<< "w", Digits[k], ".", "x" >>, "A") ]

Hosts ==
    { CatalogueX[k].name : k \in 1..Len(CatalogueX) }
    \cup { CatalogueY[k].name : k \in 1..Len(CatalogueY) }
    \cup { PoolRecords(9)[k].name : k \in 1..9 }

\* the elements of seq at the positions in S, in the order of seq
Select(seq, S) ==
    LET F[i \in 0..Len(seq)] ==
            IF i = 0 THEN << >>
            ELSE IF i \in S THEN Append(F[i - 1], seq[i]) ELSE F[i - 1]
    IN  F[Len(seq)]

Min(a, b) == IF a < b THEN a ELSE b

OkPage(items, total) ==
    [http_ok |-> TRUE, success |-> TRUE, result_null |-> FALSE,
     result |-> items, total_pages |-> total]

\* a timeout, a connection failure or an HTTP error status
HttpFailure ==
    [http_ok |-> FALSE, success |-> FALSE, result_null |-> TRUE,
     result |-> << >>, total_pages |-> 0]

\* HTTP 200 with "success": false, its "result" null or absent
FailureEnvelope(result_null) ==
    [http_ok |-> TRUE, success |-> FALSE, result_null |-> result_null,
     result |-> << >>, total_pages |-> 0]

PageFailures == { HttpFailure, FailureEnvelope(TRUE), FailureEnvelope(FALSE) }

\* the provider's answer to a listing of items, per_page items a page
Paginate(items, per_page) ==
    LET n == Len(items)
        total == IF n = 0 THEN 1 ELSE (n + per_page - 1) \div per_page
    IN  [ p \in 1..total |->
            OkPage(SubSeq(items, (p - 1) * per_page + 1, Min(p * per_page, n)), total) ]

OnePage(items) == << OkPage(items, 1) >>

\* the same answer, or the same with one page replaced by a failure
Listings(items, per_page) ==
    LET pages == Paginate(items, per_page)
    IN  {pages} \cup { [pages EXCEPT ![p] = f] : p \in 1..Len(pages), f \in PageFailures }

Up == [raises |-> FALSE, status_code |-> 200]

Down == [raises |-> TRUE, status_code |-> 0]

Answers(code) == [raises |-> FALSE, status_code |-> code]

AllUp == [ h \in Hosts |-> Up ]

Mixed ==
    [ h \in Hosts |->
        IF h = << "a", ".", "x" >> THEN Down
        ELSE IF h = << "n", "a", "s", ".", "x" >> THEN Answers(404)
        ELSE IF h = << "m", "a", "i", "l", "e", "r", ".", "y" >> THEN Answers(999)
        ELSE IF h = << "d", "e", "v", ".", "y" >> THEN Answers(888)
        ELSE IF h = << "a", ".", "y" >> THEN Answers(301)
        ELSE Down ]

Mixed2 ==
    [ h \in Hosts |->
        IF h = << "a", ".", "x" >> THEN Answers(888)
        ELSE IF h = << "n", "a", "s", ".", "x" >> THEN Down
        ELSE IF h = << "m", "a", "i", "l", "e", "r", ".", "y" >> THEN Down
        ELSE IF h = << "d", "e", "v", ".", "y" >> THEN Answers(503)
        ELSE IF h = << "a", ".", "y" >> THEN Answers(999)
        ELSE Up ]

NetworkStates == { AllUp, Mixed, Mixed2 }

NAS == << "n", "a", "s" >>

DEV == << "d", "e", "v" >>

InitMain ==
    /\ pc = "get_zones"
    /\ zones = None
    /\ zone_index = 1
    /\ all_records_to_process = << >>
    /\ futures = << >>
    /\ yielded = {}
    /\ all_valid_links = << >>
    /\ grouped_data = None
    /\ html_output = None
    /\ output_written = FALSE
    /\ api_requests = << >>
    /\ probe_calls = << >>

\* Spec: a healthy provider, every choice of records, configuration and network
Init ==
    /\ InitMain
    /\ SHOW_RECORD_STATUS \in BOOLEAN
    /\ SKIP_DETECTION_PREFIXES \in { {}, {NAS} }
    /\ HIDE_RECORD_PREFIXES \in { {}, {DEV} }
    /\ zonePages = OnePage(<< ZX, ZY >>)
    /\ \E Sx \in SUBSET (1..Len(CatalogueX)), Sy \in SUBSET (1..Len(CatalogueY)) :
         /\ Cardinality(Sx) + Cardinality(Sy) <= MaxRecords
         /\ recordPages = [ id \in {ZX.id, ZY.id} |->
                              IF id = ZX.id THEN OnePage(Select(CatalogueX, Sx))
                              ELSE OnePage(Select(CatalogueY, Sy)) ]
    /\ reach \in NetworkStates

Spec == Init /\ [][Next]_vars

\* SpecDual: a dual-stack host, whose name has an A and an AAAA record
DualCatalogueX ==
    << Rec(<< "a", ".", "x" >>, "A"),
       Rec(<< "a", ".", "x" >>, "AAAA"),
       Rec(<< "n", "a", "s", ".", "x" >>, "A") >>

InitDual ==
    /\ InitMain
    /\ SHOW_RECORD_STATUS \in BOOLEAN
    /\ SKIP_DETECTION_PREFIXES \in { {}, {NAS} }
    /\ HIDE_RECORD_PREFIXES = {}
    /\ zonePages = OnePage(<< ZX, ZY >>)
    /\ \E Sx \in SUBSET (1..Len(DualCatalogueX)), Sy \in SUBSET {1} :
         recordPages = [ id \in {ZX.id, ZY.id} |->
                           IF id = ZX.id THEN OnePage(Select(DualCatalogueX, Sx))
                           ELSE OnePage(Select(CatalogueY, Sy)) ]
    /\ reach \in { AllUp, Mixed }

SpecDual == InitDual /\ [][Next]_vars

\* SpecFetch: every way the provider can page and fail the three listings
FetchListings(catalogue) ==
    UNION { Listings(SubSeq(catalogue, 1, k), per_page) :
              k \in 0..Min(MaxPages, Len(catalogue)), per_page \in 1..MaxPages }

InitFetch ==
    /\ InitMain
    /\ SHOW_RECORD_STATUS = TRUE
    /\ SKIP_DETECTION_PREFIXES = {NAS}
    /\ HIDE_RECORD_PREFIXES = {}
    /\ zonePages \in Listings(<< ZX, ZY >>, 1) \cup Listings(<< ZX, ZY >>, 2)
                     \cup Listings(<< >>, 1)
    /\ \E px \in FetchListings(CatalogueX),
          py \in Listings(<< CatalogueY[1] >>, 1) \cup Listings(SubSeq(CatalogueY, 1, 2), 1) :
         recordPages = [ id \in {ZX.id, ZY.id} |-> IF id = ZX.id THEN px ELSE py ]
    /\ reach = AllUp

SpecFetch == InitFetch /\ [][Next]_vars

\* SpecPool: more records to probe than the pool has workers
InitPool ==
    /\ InitMain
    /\ SHOW_RECORD_STATUS = TRUE
    /\ SKIP_DETECTION_PREFIXES = {}
    /\ HIDE_RECORD_PREFIXES = {}
    /\ zonePages = OnePage(<< ZX >>)
    /\ \E n \in (NUM_WORKERS + 1)..MaxPoolRecords :
         recordPages = [ id \in {ZX.id, ZY.id} |->
                           IF id = ZX.id THEN OnePage(PoolRecords(n)) ELSE OnePage(<< >>) ]
    /\ reach = AllUp

SpecPool == InitPool /\ [][Next]_vars

\* SpecClassify: one record, every answer its host can give
InitClassify ==
    /\ InitMain
    /\ SHOW_RECORD_STATUS = TRUE
    /\ SKIP_DETECTION_PREFIXES = {}
    /\ HIDE_RECORD_PREFIXES = {}
    /\ zonePages = OnePage(<< ZX >>)
    /\ recordPages = [ id \in {ZX.id, ZY.id} |->
                         IF id = ZX.id THEN OnePage(<< CatalogueX[1] >>) ELSE OnePage(<< >>) ]
    /\ \E outcome \in {Down} \cup { Answers(code) : code \in 0..MaxStatus } :
         reach = [ AllUp EXCEPT ![CatalogueX[1].name] = outcome ]

SpecClassify == InitClassify /\ [][Next]_vars

\* SpecLive: a run under fair scheduling, with hosts that do not answer and
\* listings that fail
MaxLiveRecords == 4   \* SpecLive: records of the first zone

InitLive ==
    /\ InitMain
    /\ SHOW_RECORD_STATUS = TRUE
    /\ SKIP_DETECTION_PREFIXES = {NAS}
    /\ HIDE_RECORD_PREFIXES = {}
    /\ zonePages \in Listings(<< ZX, ZY >>, 2)
    /\ \E n \in 0..MaxLiveRecords,
          py \in Listings(<< CatalogueY[1] >>, 1) :
         recordPages = [ id \in {ZX.id, ZY.id} |->
                           IF id = ZX.id THEN OnePage(PoolRecords(n)) ELSE py ]
    /\ reach \in { AllUp, Mixed }

\* the main thread keeps running until main returns
MainStep ==
    \/ GetAllZones
    \/ GetDnsRecords
    \/ Submit
    \/ \E i \in 1..Len(futures) : Collect(i)
    \/ Render
    \/ WriteOutput
    \/ TemplateMissing

\* an idle worker of the pool takes the task at the head of the queue
WorkerStep == \E i \in 1..Len(futures) : StartTask(i)

\* requests.get(..., timeout=5) returns or raises
NetworkStep == \E i \in 1..Len(futures) : ProbeReturn(i)

Fairness == WF_vars(MainStep) /\ WF_vars(WorkerStep) /\ WF_vars(NetworkStep)

SpecLive == InitLive /\ [][Next]_vars /\ Fairness

-----------------------------------------------------------------------------
(* Vocabulary of the properties *)

Range(seq) == { seq[k] : k \in 1..Len(seq) }

\* the LinkEntries of the accumulator, of the task results and of the groups
Accumulated == Range(all_valid_links)

TaskResults == UNION { Range(futures[i].result) : i \in 1..Len(futures) }

Grouped ==
    IF grouped_data = None THEN {}
    ELSE UNION { Range(grouped_data[1][g].links) : g \in 1..Len(grouped_data[1]) }

Emitted == Accumulated \cup TaskResults \cup Grouped

\* the inclusion test of the Record Filter, as the specification words it
LabelPrefixed(name, prefixes) ==
    \E prefix \in prefixes :
        /\ Len(name) > Len(prefix)
        /\ \A k \in 1..Len(prefix) : name[k] = prefix[k]
        /\ name[Len(prefix) + 1] = "."

Included(record) ==
    /\ record.type \in {"A", "AAAA", "CNAME"}
    /\ ~LabelPrefixed(record.name, EXCLUDE_PREFIXES \cup HIDE_RECORD_PREFIXES)

Probed(full_name) == test_url_of(full_name) \in Range(probe_calls)

\* the links of the finished tasks, in the order of the worklist
RECURSIVE InWorklistOrder(_)
InWorklistOrder(k) ==
    IF k = 0 THEN << >> ELSE InWorklistOrder(k - 1) \o futures[k].result

\* C1: for a fixed provider snapshot and fixed probe outcomes, every run yields
\* the same GroupedResult whatever the order in which the tasks complete. The
\* run in which the tasks complete in worklist order is one of the runs, so
\* every run would have to yield the groups of the links in worklist order.
C1_SameGroupedResultInEveryRun ==
    grouped_data # None =>
        grouped_data[1] = grouped_data_of(InWorklistOrder(Len(futures)))

\* C2: at most NUM_WORKERS probes (check_url_status calls) are in flight at once.
C2_AtMostNumWorkersProbesInFlight ==
    Cardinality({ i \in 1..Len(futures) : futures[i].state = "RUNNING" }) <= NUM_WORKERS

\* C2 witness: every worker is inside a probe while another record still waits.
C2_PoolSaturated ==
    /\ Cardinality({ i \in 1..Len(futures) : futures[i].state = "RUNNING" }) = NUM_WORKERS
    /\ \E i \in 1..Len(futures) : futures[i].state = "PENDING"

\* C3: no LinkEntry, in the accumulator, a task result or the final groups, is of
\* a type outside {A, AAAA, CNAME} or of a name under an exclude- or hide-prefix.
C3_NoEntryForExcludedRecord ==
    \A link \in Emitted :
        /\ link.type \in {"A", "AAAA", "CNAME"}
        /\ ~LabelPrefixed(link.full_name, EXCLUDE_PREFIXES \cup HIDE_RECORD_PREFIXES)

\* C3 witness: a finished run whose worklist held a record of a type outside the
\* allowed set, one under an exclude-prefix and one under a hide-prefix, beside
\* a record that was emitted.
C3_ExcludedRecordsProcessed ==
    /\ pc = "done"
    /\ \E rd \in Range(all_records_to_process) : rd.record.type \notin ALLOWED_TYPES
    /\ \E rd \in Range(all_records_to_process) :
           LabelPrefixed(rd.record.name, EXCLUDE_PREFIXES)
    /\ \E rd \in Range(all_records_to_process) :
           LabelPrefixed(rd.record.name, HIDE_RECORD_PREFIXES)
    /\ all_valid_links # << >>

\* C4: an entry whose name starts with a skip-detection prefix at a label
\* boundary has status 888, and check_url_status is never called for such a name.
C4_SkipPrefixMeansSkippedAndNeverProbed ==
    /\ \A link \in Emitted :
           LabelPrefixed(link.full_name, SKIP_DETECTION_PREFIXES) =>
               link.status_code = 888
    /\ \A url \in Range(probe_calls) :
           ~LabelPrefixed(host_of(url), SKIP_DETECTION_PREFIXES)

\* C4 witness: a finished run with status detection on, an entry under a
\* skip-detection prefix and another record that was probed.
C4_SkipPrefixedEntryEmitted ==
    /\ pc = "done"
    /\ SHOW_RECORD_STATUS
    /\ \E link \in Accumulated : LabelPrefixed(link.full_name, SKIP_DETECTION_PREFIXES)
    /\ probe_calls # << >>

\* a response that is a failure of the list operation: the request failed or the
\* envelope says success = false
FailurePage(page) == ~page.http_ok \/ ~page.success

EnvelopeFailurePage(page) == page.http_ok /\ ~page.success

Requested(url, pages) ==
    { p \in 1..Len(pages) : [url |-> url, page |-> p] \in Range(api_requests) }

ZoneListFailed == \E p \in Requested("zones", zonePages) : FailurePage(zonePages[p])

RecordFetchFailed(id) ==
    \E p \in Requested(id, recordPages[id]) : FailurePage(recordPages[id][p])

\* C5: when the zone-list fetch fails (a request that fails or a failure
\* envelope), no record fetch and no probe is issued and nothing is produced.
C5_ZoneListFailureAborts ==
    ZoneListFailed =>
        /\ \A request \in Range(api_requests) : request.url = "zones"
        /\ probe_calls = << >>
        /\ grouped_data = None
        /\ html_output = None
        /\ ~output_written

\* the zones the provider lists and the records it holds for a zone
RECURSIVE Concat(_, _)
Concat(pages, k) == IF k = 0 THEN << >> ELSE Concat(pages, k - 1) \o pages[k].result

Listed(pages) == Range(Concat(pages, Len(pages)))

\* C6: a finished run holds exactly the entries of the included records of the
\* zones whose record fetch succeeded, and no entry of a zone whose fetch failed.
C6_FailedZoneSkippedOthersKept ==
    pc = "done" =>
        { << link.zone_name, link.full_name, link.type >> : link \in Grouped }
        = UNION { { << zone.name, record.name, record.type >> :
                      record \in { r \in Listed(recordPages[zone.id]) : Included(r) } } :
                  zone \in { z \in Range(zones[1]) : ~RecordFetchFailed(z.id) } }

\* C7: a failure envelope on any requested page of a listing makes the operation
\* return an error: the zone list is None, and the zone's records add nothing to
\* the worklist.
C7_EnvelopeFailureOnAnyPageIsError ==
    /\ (\E p \in Requested("zones", zonePages) : EnvelopeFailurePage(zonePages[p]))
           => zones = None
    /\ \A zone \in Listed(zonePages) :
           (\E p \in Requested(zone.id, recordPages[zone.id]) :
                EnvelopeFailurePage(recordPages[zone.id][p]))
               => \A rd \in Range(all_records_to_process) : rd.zone_name # zone.name

\* C8: a probe that fails never aborts the run: main never crashes and is never
\* stuck, the task of the failed probe returns an entry with status 999, and
\* a finished run holds an entry for every included record of the worklist.
C8_ProbeFailureNeverAbortsTheRun ==
    /\ pc # "crashed"
    /\ pc \notin {"done", "exit"} => ENABLED Next
    /\ \A i \in 1..Len(futures) :
           LET full_name == all_records_to_process[i].record.name
           IN  (futures[i].state = "FINISHED" /\ Probed(full_name) /\ reach[full_name].raises)
                   => /\ futures[i].result # None
                      /\ futures[i].result[1].status_code = 999
    /\ pc = "done" =>
           \A rd \in Range(all_records_to_process) :
               Included(rd.record) =>
                   \E link \in Grouped :
                       /\ link.zone_name = rd.zone_name
                       /\ link.full_name = rd.record.name
                       /\ link.type = rd.record.type
                       /\ (Probed(rd.record.name) /\ reach[rd.record.name].raises)
                              => link.status_code = 999

\* C8 witness: a finished run with the entry of a record whose probe failed and
\* the entry of another record whose probe did not.
C8_FailedProbeAmongOthers ==
    /\ pc = "done"
    /\ \E link \in Grouped :
           /\ Probed(link.full_name)
           /\ reach[link.full_name].raises
           /\ link.status_code = 999
    /\ \E other \in Grouped :
           /\ Probed(other.full_name)
           /\ ~reach[other.full_name].raises

\* C9: in every entry, status 888 holds exactly when the probe was skipped and
\* status 999 exactly when the probe failed at network level, so that no probe
\* answered by a server yields a sentinel; and 888 differs from 999.
C9_SentinelsTellTheOutcomesApart ==
    /\ SKIPPED # NETWORK_ERROR
    /\ \A link \in Emitted :
           /\ link.status_code = 888 <=> ~Probed(link.full_name)
           /\ link.status_code = 999 <=>
                  (Probed(link.full_name) /\ reach[link.full_name].raises)

\* the rendered status of every entry, with the entry's status code
Rendered ==
    IF html_output = None \/ grouped_data = None THEN {}
    ELSE UNION { { [ status_code |-> grouped_data[1][g].links[k].status_code,
                     status_html |-> html_output[1][g].items[k].status_html ] :
                   k \in 1..Len(grouped_data[1][g].links) } :
                 g \in 1..Len(grouped_data[1]) }

\* C10: with status display on, a status s with 200 <= s < 400 is rendered
\* reachable with its code, 888 skipped, 999 network error, and every other
\* status an error carrying its code.
C10_HalfOpenIntervalClassification ==
    \A r \in Rendered :
        SHOW_RECORD_STATUS =>
            /\ r.status_html # None
            /\ LET s == r.status_code
                   shown == r.status_html[1]
               IN  /\ (200 <= s /\ s < 400) =>
                          /\ shown.status_class = "status-ok"
                          /\ shown.status_text = << "online", s >>
                   /\ s = 888 => shown.status_class = "status-skipped"
                   /\ s = 999 => shown.status_class = "status-net-error"
                   /\ (s < 200 \/ (s >= 400 /\ s # 888 /\ s # 999)) =>
                          /\ shown.status_class = "status-error"
                          /\ shown.status_text = << "error", s >>

\* C10 witness: a server answered 400 and the entry is rendered as an error.
C10_Status400RenderedAsError ==
    \E r \in Rendered :
        /\ r.status_code = 400
        /\ r.status_html # None
        /\ r.status_html[1].status_class = "status-error"


\* C11: a record of an allowed type is excluded exactly when its name starts
\* with an exclude- or hide-prefix immediately followed by "."; a name that only
\* begins with the text of a prefix (mailer.y against "mail") is not excluded.
C11_ExclusionAnchorsOnLabelBoundary ==
    \A i \in 1..Len(futures) :
        LET record == all_records_to_process[i].record
        IN  (futures[i].state = "FINISHED" /\ record.type \in {"A", "AAAA", "CNAME"})
                => (futures[i].result = None
                        <=> LabelPrefixed(record.name,
                                          EXCLUDE_PREFIXES \cup HIDE_RECORD_PREFIXES))

\* C11 witness: a finished run in which mail.x was excluded and mailer.y, which
\* begins with the prefix "mail" without the separator, was emitted.
C11_MailExcludedMailerKept ==
    /\ pc = "done"
    /\ \E i \in 1..Len(futures) :
           /\ all_records_to_process[i].record.name = << "m", "a", "i", "l", ".", "x" >>
           /\ futures[i].result = None
    /\ \E link \in Grouped :
           link.full_name = << "m", "a", "i", "l", "e", "r", ".", "y" >>


\* the page numbers requested of one listing, in the order of the requests
PagesRequested(url) ==
    LET of_url == SelectSeq(api_requests, LAMBDA request : request.url = url)
    IN  [ k \in 1..Len(of_url) |-> of_url[k].page ]

AllPagesSucceed(pages) ==
    \A p \in 1..Len(pages) :
        pages[p].http_ok /\ pages[p].success /\ ~pages[p].result_null

\* the zones whose record fetch has returned
FetchedZones ==
    IF zones = None THEN {}
    ELSE { zones[1][k] : k \in { j \in 1..Len(zones[1]) :
                                    j < zone_index \/ pc # "fetch_records" } }

\* the records main put on the worklist for one zone, in worklist order
WorklistOf(zone_name) ==
    LET of_zone == SelectSeq(all_records_to_process,
                             LAMBDA rd : rd.zone_name = zone_name)
    IN  [ k \in 1..Len(of_zone) |-> of_zone[k].record ]

\* C12: when every page succeeds, a list operation requests the pages
\* 1, 2, .., total_pages once each in that order and returns the concatenation
\* of their results in page order.
C12_PagesRequestedInOrderAndConcatenated ==
    /\ (pc # "get_zones" /\ AllPagesSucceed(zonePages)) =>
           /\ PagesRequested("zones") = [ k \in 1..zonePages[1].total_pages |-> k ]
           /\ zones = Some(Concat(zonePages, Len(zonePages)))
    /\ \A zone \in FetchedZones :
           AllPagesSucceed(recordPages[zone.id]) =>
               /\ PagesRequested(zone.id)
                      = [ k \in 1..recordPages[zone.id][1].total_pages |-> k ]
               /\ WorklistOf(zone.name)
                      = Concat(recordPages[zone.id], Len(recordPages[zone.id]))

\* C12 witness: the zone list came in two pages and the records of a zone in
\* three, every page succeeded and both fetches have returned.
C12_ThreePagesFetched ==
    /\ Len(zonePages) = 2
    /\ AllPagesSucceed(zonePages)
    /\ \E zone \in FetchedZones :
           /\ Len(recordPages[zone.id]) = 3
           /\ AllPagesSucceed(recordPages[zone.id])
           /\ Len(WorklistOf(zone.name)) = 3


\* the position of a zone in the list get_all_zones returned
ZonePosition(zone_name) ==
    CHOOSE k \in 1..Len(zones[1]) : zones[1][k].name = zone_name

\* C13: the zone groups of the GroupedResult stand in the order in which the
\* zones were fetched, whatever the order in which the probes complete.
C13_GroupsInZoneListingOrder ==
    grouped_data # None =>
        \A g \in 1..Len(grouped_data[1]), h \in 1..Len(grouped_data[1]) :
            g < h => ZonePosition(grouped_data[1][g].zone_name)
                         < ZonePosition(grouped_data[1][h].zone_name)


ProbesOf(url) == Cardinality({ k \in 1..Len(probe_calls) : probe_calls[k] = url })

\* C14: within one run check_url_status is called at most once for the URL of
\* any hostname.
C14_AtMostOneProbePerHostname ==
    \A url \in Range(probe_calls) : ProbesOf(url) <= 1


\* C15: in every state, the zone_name of every LinkEntry is the name of a zone
\* get_all_zones returned in this run, and the entry's record is one of the
\* records the provider holds for that zone.
C15_EntryZoneIsTheZoneOfItsRecord ==
    \A link \in Emitted :
        /\ zones # None
        /\ \E zone \in Range(zones[1]) :
               /\ zone.name = link.zone_name
               /\ \E record \in Listed(recordPages[zone.id]) :
                      /\ record.name = link.full_name
                      /\ record.type = link.type

\* C15 witness: a finished run with entries of both zones.
C15_EntriesOfTwoZones ==
    /\ pc = "done"
    /\ \E link \in Grouped : link.zone_name = ZX.name
    /\ \E link \in Grouped : link.zone_name = ZY.name


\* C16: the accumulator changes only in a step of main's collection loop, and a
\* step of a worker changes nothing but the Future of its own task (and adds
\* its probe to the log of probes): no two threads write the same state.
C16_OnlyMainWritesTheAccumulator ==
    [][ /\ all_valid_links' # all_valid_links =>
               /\ pc = "collect"
               /\ \E i \in 1..Len(futures) : Collect(i)
        /\ \A i \in 1..Len(futures) :
               (StartTask(i) \/ ProbeReturn(i)) =>
                   /\ UNCHANGED << pc, zones, zone_index, all_records_to_process,
                                   yielded, all_valid_links, grouped_data,
                                   html_output, output_written, api_requests >>
                   /\ Len(futures') = Len(futures)
                   /\ \A j \in 1..Len(futures) : j # i => futures'[j] = futures[j]
      ]_vars

\* C16 witness: main has collected an entry while a worker is inside a probe.
C16_CollectingWhileWorkersRun ==
    /\ pc = "collect"
    /\ all_valid_links # << >>
    /\ \E i \in 1..Len(futures) : futures[i].state = "RUNNING"


\* the place of a listing in the order main fetches them: the zone list first,
\* then the records of the zones in listing order
FetchRank(url) == IF url = "zones" THEN 0 ELSE ZonePosition(
                      (CHOOSE zone \in Range(zones[1]) : zone.id = url).name)

\* C17: the provider requests are issued one listing after the other, the zone
\* list first and the zones' records in listing order; no task is submitted and
\* no probe starts before the records of the last zone have been fetched; and a
\* request is issued only by a fetch step of main, at a time when no worker
\* task exists, so that never more than one is in flight.
C17_FetchesSequentialAndBeforeProbes ==
    /\ [] ( /\ \A k \in 1..Len(api_requests), m \in 1..Len(api_requests) :
                   k < m => FetchRank(api_requests[k].url)
                                <= FetchRank(api_requests[m].url)
            /\ (futures # << >> \/ probe_calls # << >>) =>
                   /\ pc \notin {"get_zones", "fetch_records"}
                   /\ \A zone \in Range(zones[1]) :
                          \E request \in Range(api_requests) : request.url = zone.id )
    /\ [][ api_requests' # api_requests =>
               /\ GetAllZones \/ GetDnsRecords
               /\ futures = << >>
               /\ futures' = << >>
               /\ probe_calls' = << >> ]_vars

\* C17 witness: probes are running after the records of two zones were fetched,
\* the first of them in several pages.
C17_ProbingAfterTwoZoneFetches ==
    /\ probe_calls # << >>
    /\ zones # None
    /\ Len(zones[1]) = 2
    /\ Len(PagesRequested(zones[1][1].id)) >= 2
    /\ Len(PagesRequested(zones[1][2].id)) >= 1


\* main returned at line 245, before any record was fetched or task submitted
AbortedAtStart ==
    /\ pc = "exit"
    /\ Falsy(zones)
    /\ all_records_to_process = << >>
    /\ futures = << >>
    /\ probe_calls = << >>

\* main returned after every worklist item was run by a worker and its result
\* was handed to main
RunCompleted ==
    /\ pc \in {"done", "exit"}
    /\ ~Falsy(zones)
    /\ Len(futures) = Len(all_records_to_process)
    /\ \A i \in 1..Len(futures) : futures[i].state = "FINISHED"
    /\ yielded = 1..Len(futures)

\* C18: under fair scheduling of main, the workers and the network, every run
\* ends, and stays, either aborted at the start or completed with every
\* worklist item resolved by a worker and collected; no task stays queued or
\* in flight forever.
C18_EveryRunTerminates == <>[](AbortedAtStart \/ RunCompleted)

\* C18 witness: a run completed that had several tasks, one of whose probes
\* failed, after the records of one zone could not be fetched.
C18_CompletedDespiteFailures ==
    /\ RunCompleted
    /\ Len(futures) > 1
    /\ \E zone \in Range(zones[1]) :
           \A rd \in Range(all_records_to_process) : rd.zone_name # zone.name
    /\ \E link \in Range(all_valid_links) : link.status_code = NETWORK_ERROR


\* a LinkEntry is the entry of a worklist item when it carries the item's zone
\* and the item's record
EntryOf(link, rd) ==
    /\ link.zone_name = rd.zone_name
    /\ link.full_name = rd.record.name
    /\ link.type = rd.record.type
    /\ link.content = rd.record.content

IncludedItems ==
    { i \in 1..Len(all_records_to_process) : Included(all_records_to_process[i].record) }

\* C19: once collection is over, the collected LinkEntries correspond one to
\* one to the worklist items that pass the inclusion filter: as many entries as
\* included items, every entry that of an included item, and for every
\* included item as many entries as there are items like it; and the worklist
\* holds every record of every zone whose pages were all fetched.
C19_OneEntryPerIncludedItem ==
    (pc \in {"render", "template", "done"} /\ ~Falsy(zones)) =>
        /\ Len(all_valid_links) = Cardinality(IncludedItems)
        /\ \A link \in Accumulated :
               \E i \in IncludedItems : EntryOf(link, all_records_to_process[i])
        /\ \A i \in IncludedItems :
               Cardinality({ k \in 1..Len(all_valid_links) :
                               EntryOf(all_valid_links[k], all_records_to_process[i]) })
                 = Cardinality({ j \in IncludedItems :
                                   all_records_to_process[j] = all_records_to_process[i] })
        /\ \A zone \in Range(zones[1]) :
               AllPagesSucceed(recordPages[zone.id]) =>
                   WorklistOf(zone.name)
                       = Concat(recordPages[zone.id], Len(recordPages[zone.id]))

\* C19 witness: a finished run whose worklist held included and excluded
\* records of two zones and whose probes did not all succeed.
C19_FinishedWithIncludedAndExcluded ==
    /\ pc = "done"
    /\ Cardinality(IncludedItems) >= 3
    /\ Cardinality(IncludedItems) < Len(all_records_to_process)
    /\ \E i \in IncludedItems, j \in IncludedItems :
           all_records_to_process[i].zone_name # all_records_to_process[j].zone_name
    /\ \E link \in Accumulated : link.status_code = NETWORK_ERROR


\* C20: with SHOW_RECORD_STATUS false no probe is issued in the whole run and
\* every emitted LinkEntry has status 888, whatever the skip-detection prefixes
\* are; with SHOW_RECORD_STATUS true, an included record whose task has run is
\* probed exactly when its name is under no skip-detection prefix.
C20_SwitchOffNoProbeSwitchOnProbeUnlessSkipped ==
    /\ ~SHOW_RECORD_STATUS =>
           /\ probe_calls = << >>
           /\ \A link \in Emitted : link.status_code = 888
    /\ SHOW_RECORD_STATUS =>
           \A i \in 1..Len(futures) :
               LET record == all_records_to_process[i].record
               IN  (futures[i].state # "PENDING" /\ Included(record)) =>
                       (Probed(record.name)
                          <=> ~LabelPrefixed(record.name, SKIP_DETECTION_PREFIXES))

\* C20 witness: a finished run with status detection off, whose entries are
\* some under a skip-detection prefix and some not.
C20_SwitchOffRunFinished ==
    /\ pc = "done"
    /\ ~SHOW_RECORD_STATUS
    /\ \E link \in Accumulated : LabelPrefixed(link.full_name, SKIP_DETECTION_PREFIXES)
    /\ \E link \in Accumulated : ~LabelPrefixed(link.full_name, SKIP_DETECTION_PREFIXES)

====
